---- MODULE Spec2Model ----
(***************************************************************************)
(* Model of master_seed_generator.py: the pure derivation function         *)
(* generate_master_seed_deterministic (sort, join, UTF-8 encode, PBKDF2,   *)
(* SHA-512, hex) executed statement by statement, a library caller that    *)
(* invokes it repeatedly, and the interactive_mode input loop.             *)
(*                                                                         *)
(* A string is a sequence of Unicode code points, a byte string a sequence *)
(* of numbers 0..255, the returned hex string a sequence of one-character  *)
(* strings.                                                                *)
(***************************************************************************)
EXTENDS Integers, Sequences, FiniteSets, TLC

VARIABLES pc, caller, device_seeds, passed, executed, raised, sorted_seeds,
          combined, password, derived_key, final_hash, result, remembered,
          user_input, seed_number, lines, exit_status, out, calls, interrupted

vars == <<pc, caller, device_seeds, passed, executed, raised, sorted_seeds,
          combined, password, derived_key, final_hash, result, remembered,
          user_input, seed_number, lines, exit_status, out, calls, interrupted>>

(* ------------------------------ bounds --------------------------------- *)

\* longest seed string (in code points) a caller passes or a user types
MaxStrLen == 2
\* most seeds in one call of the library caller
MaxSeeds == 2
\* most seeds the interactive user enters before ending the input
MaxLines == 2

\* code points the library caller builds seeds from: 'a' (1 byte in UTF-8)
\* and the euro sign (3 bytes)
Alphabet == {97, 8364}
\* code points the interactive user types: space and 'a'
KeyAlphabet == {32, 97}

StringsOver(alphabet, n) == UNION {[1..k -> alphabet] : k \in 0..n}
SeedStrings == StringsOver(Alphabet, MaxStrLen)
Inputs == UNION {[1..k -> SeedStrings] : k \in 0..MaxSeeds}
ShortStrings == {<<>>} \cup {<<c>> : c \in Alphabet}
ShortInputs == UNION {[1..k -> ShortStrings] : k \in 0..MaxSeeds}
RawLines == StringsOver(KeyAlphabet, MaxStrLen)

(* ------------------------- pure helper functions ----------------------- *)

Min(a, b) == IF a < b THEN a ELSE b

\* Python's str < str: lexicographic by code point, a proper prefix is smaller
StrLess(a, b) ==
    \E i \in 1..(Min(Len(a), Len(b)) + 1) :
        /\ \A j \in 1..(i - 1) : a[j] = b[j]
        /\ \/ i > Len(a) /\ i <= Len(b)
           \/ i <= Len(a) /\ i <= Len(b) /\ a[i] < b[i]

RECURSIVE Insert(_, _)
Insert(x, s) ==
    IF s = <<>> THEN <<x>>
    ELSE IF StrLess(x, Head(s)) THEN <<x>> \o s
    ELSE <<Head(s)>> \o Insert(x, Tail(s))

RECURSIVE SortedFrom(_)
SortedFrom(s) ==
    IF s = <<>> THEN <<>>
    ELSE Insert(s[Len(s)], SortedFrom(SubSeq(s, 1, Len(s) - 1)))

RECURSIVE Dedup(_)
Dedup(s) ==
    IF s = <<>> THEN <<>>
    ELSE IF \E i \in 2..Len(s) : s[i] = Head(s) THEN Dedup(Tail(s))
    ELSE <<Head(s)>> \o Dedup(Tail(s))

\* faulty variants of sorted(): no sorting at all; sorted(set(...))
SortedIdentity(s) == s
SortedDedup(s) == SortedFrom(Dedup(s))

\* sorted(device_seeds): a new list, stable, ascending
Sorted(s) == SortedFrom(s)

\* ''.join(sorted_seeds)
RECURSIVE Join(_)
Join(strs) == IF strs = <<>> THEN <<>> ELSE Head(strs) \o Join(Tail(strs))

\* the UTF-8 bytes of one code point
EncodeCodePoint(c) ==
    IF c < 128 THEN <<c>>
    ELSE IF c < 2048 THEN <<192 + (c \div 64), 128 + (c % 64)>>
    ELSE IF c < 65536
         THEN <<224 + (c \div 4096), 128 + ((c \div 64) % 64), 128 + (c % 64)>>
    ELSE <<240 + (c \div 262144), 128 + ((c \div 4096) % 64),
           128 + ((c \div 64) % 64), 128 + (c % 64)>>

\* str.encode('utf-8')
RECURSIVE Utf8Encode(_)
Utf8Encode(s) ==
    IF s = <<>> THEN <<>> ELSE EncodeCodePoint(Head(s)) \o Utf8Encode(Tail(s))

\* b"master-seed-salt-v1"
Salt == <<109, 97, 115, 116, 101, 114, 45, 115, 101, 101, 100, 45,
          115, 97, 108, 116, 45, 118, 49>>
Iterations == 100000
DkLen == 64
DigestSize == 64

\* hashlib.pbkdf2_hmac('sha512', password, salt, iterations, dklen): a library
\* primitive, modelled as an injective map to dklen bytes (the length of the
\* password, the password, then filler from salt and iteration count); it is
\* injective for passwords shorter than dklen bytes, which the bounds ensure.
Pbkdf2HmacSha512(pw, salt, iterations, dklen) ==
    [i \in 1..dklen |->
        IF i = 1 THEN Len(pw) % 256
        ELSE IF i - 1 <= Len(pw) THEN pw[i - 1]
        ELSE (salt[((i - 1) % Len(salt)) + 1] + iterations + i) % 256]

\* hashlib.sha512(data).digest(): a library primitive, modelled as an
\* injective map of DigestSize-byte inputs to DigestSize bytes
Sha512(data) ==
    [i \in 1..DigestSize |->
        (IF i <= Len(data) THEN (data[i] * 167 + 13 * i) % 256
         ELSE (13 * i) % 256)]

HexDigits == <<"0", "1", "2", "3", "4", "5", "6", "7",
               "8", "9", "a", "b", "c", "d", "e", "f">>
UpperHexDigits == <<"0", "1", "2", "3", "4", "5", "6", "7",
                    "8", "9", "A", "B", "C", "D", "E", "F">>

\* faulty variant of bytes.hex(): upper-case digits
HexUpper(bytes) ==
    [i \in 1..(2 * Len(bytes)) |->
        IF i % 2 = 1 THEN UpperHexDigits[(bytes[(i + 1) \div 2] \div 16) + 1]
        ELSE UpperHexDigits[(bytes[i \div 2] % 16) + 1]]

\* bytes.hex(): two lower-case hex digits per byte, high nibble first
Hex(bytes) ==
    [i \in 1..(2 * Len(bytes)) |->
        IF i % 2 = 1 THEN HexDigits[(bytes[(i + 1) \div 2] \div 16) + 1]
        ELSE HexDigits[(bytes[i \div 2] % 16) + 1]]

\* the value generate_master_seed_deterministic returns for a non-empty list
MasterSeed(seeds) ==
    Hex(Sha512(Pbkdf2HmacSha512(Utf8Encode(Join(Sorted(seeds))),
                                Salt, Iterations, DkLen)))

\* faulty variant of the emptiness test: "if not ''.join(device_seeds)"
FalsyJoined(seeds) == Join(seeds) = <<>>

\* "not device_seeds" for a list
Falsy(seeds) == Len(seeds) = 0


\* code points str.strip() removes (Python's Unicode whitespace)
Whitespace == (9..13) \cup (28..32) \cup {133, 160, 5760} \cup (8192..8202)
              \cup {8232, 8233, 8239, 8287, 12288}

RECURSIVE LStrip(_)
LStrip(s) ==
    IF s = <<>> THEN <<>>
    ELSE IF Head(s) \in Whitespace THEN LStrip(Tail(s)) ELSE s

RECURSIVE RStrip(_)
RStrip(s) ==
    IF s = <<>> THEN <<>>
    ELSE IF s[Len(s)] \in Whitespace THEN RStrip(SubSeq(s, 1, Len(s) - 1))
    ELSE s

\* faulty variant of str.strip(): rstrip() only
StripRight(s) == RStrip(s)

\* str.strip()
Strip(s) == RStrip(LStrip(s))

\* faulty variant of the "no seeds entered" test: the test is missing
NoSeedsNever(seeds) == FALSE

\* "not device_seeds" in interactive_mode
NoSeedsCollected(seeds) == Len(seeds) = 0

(* ------------------------------- state --------------------------------- *)

\* what the library caller kept of an earlier call; between: another call
\* ended since
NotRemembered ==
    [set |-> FALSE, between |-> FALSE, seeds |-> <<>>, raised |-> FALSE,
     result |-> <<>>]

\* the locals of generate_master_seed_deterministic before the first statement
FreshFrame ==
    /\ executed' = {}
    /\ raised' = FALSE
    /\ sorted_seeds' = <<>>
    /\ combined' = <<>>
    /\ password' = <<>>
    /\ derived_key' = <<>>
    /\ final_hash' = <<>>
    /\ result' = <<>>

cliVars == <<user_input, seed_number, lines, exit_status, out, calls, interrupted>>
frameVars == <<executed, raised, sorted_seeds, combined, password, derived_key,
               final_hash, result>>

InitCommon ==
    /\ device_seeds = <<>>
    /\ passed = <<>>
    /\ executed = {}
    /\ raised = FALSE
    /\ sorted_seeds = <<>>
    /\ combined = <<>>
    /\ password = <<>>
    /\ derived_key = <<>>
    /\ final_hash = <<>>
    /\ result = <<>>
    /\ remembered = NotRemembered
    /\ user_input = <<>>
    /\ seed_number = 1
    /\ lines = <<>>
    /\ exit_status = -1
    /\ out = "none"
    /\ calls = 0
    /\ interrupted = FALSE

\* a program that imports the module and calls the function
Init ==
    /\ pc = "idle"
    /\ caller = "library"
    /\ InitCommon

\* the script run without arguments: interactive_mode() after its banner
InitCLI ==
    /\ pc = "input"
    /\ caller = "interactive"
    /\ InitCommon

(* --------------- generate_master_seed_deterministic -------------------- *)

\* if not device_seeds: raise ValueError(...)
CheckEmpty ==
    /\ pc = "check"
    /\ IF Falsy(device_seeds)
       THEN /\ raised' = TRUE
            /\ pc' = "return"
       ELSE /\ raised' = FALSE
            /\ pc' = "sort"
    /\ executed' = executed \cup {"check"}
    /\ UNCHANGED <<caller, device_seeds, passed, sorted_seeds, combined, password,
                   derived_key, final_hash, result, remembered>>
    /\ UNCHANGED cliVars

\* faulty variant of the sort statement: device_seeds.sort() sorts the caller's list
SortStepInPlace ==
    /\ pc = "sort"
    /\ device_seeds' = Sorted(device_seeds)
    /\ sorted_seeds' = Sorted(device_seeds)
    /\ executed' = executed \cup {"sort"}
    /\ pc' = "join"
    /\ UNCHANGED <<caller, passed, raised, combined, password,
                   derived_key, final_hash, result, remembered>>
    /\ UNCHANGED cliVars

\* faulty variant of the sort statement: the seeds of the remembered call are still
\* in a module-level list that this call extends
SortStepAccumulating ==
    /\ pc = "sort"
    /\ sorted_seeds' = Sorted(remembered.seeds \o device_seeds)
    /\ executed' = executed \cup {"sort"}
    /\ pc' = "join"
    /\ UNCHANGED <<caller, device_seeds, passed, raised, combined, password,
                   derived_key, final_hash, result, remembered>>
    /\ UNCHANGED cliVars

\* sorted_seeds = sorted(device_seeds)
SortStep ==
    /\ pc = "sort"
    /\ sorted_seeds' = Sorted(device_seeds)
    /\ executed' = executed \cup {"sort"}
    /\ pc' = "join"
    /\ UNCHANGED <<caller, device_seeds, passed, raised, combined, password,
                   derived_key, final_hash, result, remembered>>
    /\ UNCHANGED cliVars

\* combined = ''.join(sorted_seeds)
JoinStep ==
    /\ pc = "join"
    /\ combined' = Join(sorted_seeds)
    /\ executed' = executed \cup {"join"}
    /\ pc' = "kdf"
    /\ UNCHANGED <<caller, device_seeds, passed, raised, sorted_seeds, password,
                   derived_key, final_hash, result, remembered>>
    /\ UNCHANGED cliVars

\* derived_key = hashlib.pbkdf2_hmac('sha512', combined.encode('utf-8'), salt,
\*                                   100000, dklen=64)
KdfStep ==
    /\ pc = "kdf"
    /\ password' = Utf8Encode(combined)
    /\ derived_key' = Pbkdf2HmacSha512(Utf8Encode(combined), Salt, Iterations, DkLen)
    /\ executed' = executed \cup {"kdf"}
    /\ pc' = "sha512"
    /\ UNCHANGED <<caller, device_seeds, passed, raised, sorted_seeds, combined,
                   final_hash, result, remembered>>
    /\ UNCHANGED cliVars

\* final_hash = hashlib.sha512(derived_key).digest()
HashStep ==
    /\ pc = "sha512"
    /\ final_hash' = Sha512(derived_key)
    /\ executed' = executed \cup {"sha512"}
    /\ pc' = "hex"
    /\ UNCHANGED <<caller, device_seeds, passed, raised, sorted_seeds, combined,
                   password, derived_key, result, remembered>>
    /\ UNCHANGED cliVars

\* return final_hash.hex()
HexStep ==
    /\ pc = "hex"
    /\ result' = Hex(final_hash)
    /\ executed' = executed \cup {"hex"}
    /\ pc' = "return"
    /\ UNCHANGED <<caller, device_seeds, passed, raised, sorted_seeds, combined,
                   password, derived_key, final_hash, remembered>>
    /\ UNCHANGED cliVars

Steps == CheckEmpty \/ SortStep \/ JoinStep \/ KdfStep \/ HashStep \/ HexStep

(* --------------------------- library caller ---------------------------- *)

\* master_seed = generate_master_seed_deterministic(device_seeds)
Call(seeds) ==
    /\ pc = "idle"
    /\ caller = "library"
    /\ device_seeds' = seeds
    /\ passed' = seeds
    /\ FreshFrame
    /\ pc' = "check"
    /\ UNCHANGED <<caller, remembered>>
    /\ UNCHANGED cliVars

\* the call is over (value returned or ValueError raised); the caller drops
\* the outcome and the frame is gone
Return ==
    /\ pc = "return"
    /\ caller = "library"
    /\ pc' = "idle"
    /\ device_seeds' = <<>>
    /\ passed' = <<>>
    /\ FreshFrame
    /\ remembered' = [remembered EXCEPT !.between = remembered.set]
    /\ UNCHANGED caller
    /\ UNCHANGED cliVars

\* as Return, but the caller keeps the outcome (master1 = ...) to compare it
\* with the outcome of a later call
ReturnAndKeep ==
    /\ pc = "return"
    /\ caller = "library"
    /\ remembered' = [set |-> TRUE, between |-> FALSE, seeds |-> passed,
                      raised |-> raised, result |-> result]
    /\ pc' = "idle"
    /\ device_seeds' = <<>>
    /\ passed' = <<>>
    /\ FreshFrame
    /\ UNCHANGED caller
    /\ UNCHANGED cliVars

CallAny == pc = "idle" /\ \E seeds \in Inputs : Call(seeds)
CallShort == pc = "idle" /\ \E seeds \in ShortInputs : Call(seeds)

Next == CallAny \/ Steps \/ Return

Spec == Init /\ [][Next]_vars

NextRepeat == CallShort \/ Steps \/ Return \/ ReturnAndKeep

SpecRepeat == Init /\ [][NextRepeat]_vars


(* ---------------------------- interactive_mode ------------------------- *)

\* user_input = input(...).strip() returns a line; past MaxLines seeds the
\* user only ends the input
ReadLine(raw) ==
    /\ pc = "input"
    /\ caller = "interactive"
    /\ Len(device_seeds) < MaxLines \/ Strip(raw) = <<>>
    /\ lines' = Append(lines, raw)
    /\ user_input' = Strip(raw)
    /\ pc' = "test"
    /\ UNCHANGED <<caller, device_seeds, passed, remembered, seed_number,
                   exit_status, out, calls, interrupted>>
    /\ UNCHANGED frameVars

\* if not user_input: break
TestEmpty ==
    /\ pc = "test"
    /\ pc' = IF user_input = <<>> THEN "collected" ELSE "append"
    /\ UNCHANGED <<caller, device_seeds, passed, remembered>>
    /\ UNCHANGED cliVars
    /\ UNCHANGED frameVars

\* device_seeds.append(user_input); seed_number += 1
AppendSeed ==
    /\ pc = "append"
    /\ device_seeds' = Append(device_seeds, user_input)
    /\ seed_number' = seed_number + 1
    /\ pc' = "input"
    /\ UNCHANGED <<caller, passed, remembered, user_input, lines, exit_status,
                   out, calls, interrupted>>
    /\ UNCHANGED frameVars

\* input() raises EOFError: print(); break
EndOfInput ==
    /\ pc = "input"
    /\ caller = "interactive"
    /\ pc' = "collected"
    /\ UNCHANGED <<caller, device_seeds, passed, remembered>>
    /\ UNCHANGED cliVars
    /\ UNCHANGED frameVars

\* faulty variant of the KeyboardInterrupt handler: it leaves the loop as EOF does
KeyboardInterruptBreaks ==
    /\ pc \in {"input", "test", "append"}
    /\ caller = "interactive"
    /\ interrupted' = TRUE
    /\ out' = "cancelled"
    /\ pc' = "collected"
    /\ UNCHANGED <<caller, device_seeds, passed, remembered, user_input,
                   seed_number, lines, exit_status, calls>>
    /\ UNCHANGED frameVars

\* KeyboardInterrupt inside the try block of the loop: message, sys.exit(1)
KeyboardInterrupt ==
    /\ pc \in {"input", "test", "append"}
    /\ caller = "interactive"
    /\ interrupted' = TRUE
    /\ out' = "cancelled"
    /\ exit_status' = 1
    /\ pc' = "exited"
    /\ UNCHANGED <<caller, device_seeds, passed, remembered, user_input,
                   seed_number, lines, calls>>
    /\ UNCHANGED frameVars

\* if not device_seeds: message, sys.exit(1)
NoSeedsExit ==
    /\ pc = "collected"
    /\ NoSeedsCollected(device_seeds)
    /\ out' = "no_seeds"
    /\ exit_status' = 1
    /\ pc' = "exited"
    /\ UNCHANGED <<caller, device_seeds, passed, remembered, user_input,
                   seed_number, lines, calls, interrupted>>
    /\ UNCHANGED frameVars

\* master_seed = generate_master_seed_deterministic(device_seeds)
Invoke ==
    /\ pc = "collected"
    /\ ~NoSeedsCollected(device_seeds)
    /\ calls' = calls + 1
    /\ passed' = device_seeds
    /\ FreshFrame
    /\ pc' = "check"
    /\ UNCHANGED <<caller, device_seeds, remembered, user_input, seed_number,
                   lines, exit_status, out, interrupted>>

\* the call returned: the seed is printed and the script ends; or it raised:
\* except Exception prints the error and sys.exit(1)
AfterCall ==
    /\ pc = "return"
    /\ caller = "interactive"
    /\ IF raised
       THEN /\ out' = "error"
            /\ exit_status' = 1
       ELSE /\ out' = "master_seed"
            /\ exit_status' = 0
    /\ pc' = "exited"
    /\ UNCHANGED <<caller, device_seeds, passed, remembered, user_input,
                   seed_number, lines, calls, interrupted>>
    /\ UNCHANGED frameVars

ReadAnyLine == pc = "input" /\ \E raw \in RawLines : ReadLine(raw)

NextCLI ==
    \/ ReadAnyLine \/ TestEmpty \/ AppendSeed \/ EndOfInput \/ KeyboardInterrupt
    \/ NoSeedsExit \/ Invoke \/ Steps \/ AfterCall

SpecCLI == InitCLI /\ [][NextCLI]_vars


(* ------------------------ vocabulary of the properties ----------------- *)

InFunction == pc \in {"check", "sort", "join", "kdf", "sha512", "hex", "return"}
Returned == pc = "return" /\ ~raised
AllSteps == {"check", "sort", "join", "kdf", "sha512", "hex"}

\* every reordering of a sequence
PermsOf(s) ==
    {[i \in 1..Len(s) |-> s[f[i]]] :
        f \in {g \in [1..Len(s) -> 1..Len(s)] :
                  \A i, j \in 1..Len(s) : g[i] = g[j] => i = j}}

Count(x, s) == Cardinality({i \in 1..Len(s) : s[i] = x})
Elements(s) == {s[i] : i \in 1..Len(s)}
RemoveAt(s, i) == SubSeq(s, 1, i - 1) \o SubSeq(s, i + 1, Len(s))
InsertAt(s, i, x) == SubSeq(s, 1, i - 1) \o <<x>> \o SubSeq(s, i, Len(s))

\* byte-wise lexicographic order of two byte strings
RECURSIVE BytesLeq(_, _)
BytesLeq(a, b) ==
    IF a = <<>> THEN TRUE
    ELSE IF b = <<>> THEN FALSE
    ELSE IF Head(a) # Head(b) THEN Head(a) < Head(b)
    ELSE BytesLeq(Tail(a), Tail(b))

\* the UTF-8 encodings of the first n strings of strs, one after the other
RECURSIVE EncodedConcat(_, _)
EncodedConcat(strs, n) ==
    IF n = 0 THEN <<>> ELSE EncodedConcat(strs, n - 1) \o Utf8Encode(strs[n])

\* the sequences one change away from s: one element replaced by another
\* string, one element removed (leaving at least one), one element added
Neighbours(s) ==
    UNION {{[s EXCEPT ![i] = x] : x \in SeedStrings \ {s[i]}} : i \in 1..Len(s)}
    \cup {RemoveAt(s, i) : i \in {j \in 1..Len(s) : Len(s) > 1}}
    \cup {InsertAt(s, i, x) : i \in 1..(Len(s) + 1), x \in SeedStrings}

LowerHexChars == {"0", "1", "2", "3", "4", "5", "6", "7", "8", "9",
                  "a", "b", "c", "d", "e", "f"}

(* ------------------------------ properties ----------------------------- *)

\* C1: when a call returns, the password handed to the key derivation and the
\* returned master seed are those of every permutation of the input.
C1_OrderInvariance ==
    Returned =>
        \A p \in PermsOf(passed) :
            /\ Utf8Encode(Join(Sorted(p))) = password
            /\ MasterSeed(p) = result

\* a call returned for an input given in descending order
C1_Witness ==
    /\ Returned
    /\ Len(passed) = 2
    /\ StrLess(passed[2], passed[1])

\* C2: when a call returns, every sequence one change away from its input
\* (one element changed, removed or added) has a different canonical input
\* and a different master seed.
C2_Sensitivity ==
    Returned =>
        \A n \in Neighbours(passed) :
            /\ Utf8Encode(Join(Sorted(n))) # password
            /\ MasterSeed(n) # result

\* C3: a call ends in ValueError exactly when its input has no elements, and
\* then nothing after the emptiness test has run; every other call runs all
\* its statements and returns a master seed.
C3_EmptyInputError ==
    pc = "return" =>
        /\ raised <=> Len(passed) = 0
        /\ raised => executed = {"check"} /\ result = <<>> /\ password = <<>>
        /\ ~raised => executed = AllSteps /\ result = MasterSeed(passed)
                      /\ Len(result) = 2 * DigestSize

\* a call with the single empty-string seed returned a value
C3_Witness ==
    /\ pc = "return"
    /\ passed = << <<>> >>
    /\ ~raised
    /\ Len(result) > 0

\* C4: a call made with the input of a remembered earlier call ends as that
\* call did (same error or same master seed), whatever calls came between.
C4_Deterministic ==
    (pc = "return" /\ remembered.set /\ remembered.seeds = passed) =>
        /\ remembered.raised = raised
        /\ remembered.result = result

\* a call repeats the input of a remembered call after another call was made
\* in between, and returns a value
C4_Witness ==
    /\ Returned
    /\ remembered.set
    /\ remembered.between
    /\ remembered.seeds = passed

\* C5: the password handed to the key derivation is the concatenation of the
\* UTF-8 encodings of the input's elements, each as often as in the input,
\* in ascending byte-wise order; dropping a duplicate of a non-empty element
\* gives another canonical input.
C5_CanonicalInput ==
    "kdf" \in executed =>
        /\ Len(sorted_seeds) = Len(passed)
        /\ \A x \in Elements(passed) \cup Elements(sorted_seeds) :
               Count(x, sorted_seeds) = Count(x, passed)
        /\ \A i \in 1..(Len(sorted_seeds) - 1) :
               BytesLeq(Utf8Encode(sorted_seeds[i]), Utf8Encode(sorted_seeds[i + 1]))
        /\ password = EncodedConcat(sorted_seeds, Len(sorted_seeds))
        /\ \A i \in 1..Len(passed) :
               (passed[i] # <<>> /\ Count(passed[i], passed) > 1)
                   => Utf8Encode(Join(Sorted(RemoveAt(passed, i)))) # password

\* the key derivation ran for an input holding the same non-empty seed twice
C5_Witness ==
    /\ "kdf" \in executed
    /\ Len(passed) >= 2
    /\ passed[1] = passed[2]
    /\ passed[1] # <<>>

\* C6: a returned master seed is 128 lower-case hex digits, the hex encoding
\* of a 64-byte digest.
C6_OutputShape ==
    Returned =>
        /\ Len(final_hash) = 64
        /\ Len(result) = 128
        /\ \A i \in 1..Len(result) : result[i] \in LowerHexChars

\* a returned master seed with a digit above 9
C6_Witness ==
    /\ Returned
    /\ \E i \in 1..Len(result) : result[i] \in {"a", "b", "c", "d", "e", "f"}

\* C7: during and after a call, returned or raised, the caller's list holds
\* the elements it held when the call was made, in the same order, and the
\* call has printed nothing, ended no process and left the caller's kept
\* values alone.
C7_NoSideEffects ==
    InFunction =>
        /\ device_seeds = passed
        /\ out = "none"
        /\ exit_status = -1
        /\ remembered = NotRemembered

\* a call returned for an input that sorting reorders
C7_Witness ==
    /\ Returned
    /\ Len(passed) >= 2
    /\ Sorted(passed) # passed
    /\ sorted_seeds # passed


\* a line of nothing but whitespace (the empty line included)
Blank(l) == \A i \in 1..Len(l) : l[i] \in Whitespace

\* s is raw without its leading and trailing whitespace
IsStripOf(s, raw) ==
    \E i, j \in 0..Len(raw) :
        /\ i <= j
        /\ s = SubSeq(raw, i + 1, j)
        /\ \A k \in 1..i : raw[k] \in Whitespace
        /\ \A k \in (j + 1)..Len(raw) : raw[k] \in Whitespace
        /\ s # <<>> => (s[1] \notin Whitespace /\ s[Len(s)] \notin Whitespace)

\* the lines read before the first empty line (all of them if there is none)
RECURSIVE BeforeFirstEmpty(_)
BeforeFirstEmpty(ls) ==
    IF ls = <<>> \/ Head(ls) = <<>> THEN <<>>
    ELSE <<Head(ls)>> \o BeforeFirstEmpty(Tail(ls))

\* the lines read before the first blank line (all of them if there is none)
RECURSIVE BeforeFirstBlank(_)
BeforeFirstBlank(ls) ==
    IF ls = <<>> \/ Blank(Head(ls)) THEN <<>>
    ELSE <<Head(ls)>> \o BeforeFirstBlank(Tail(ls))

\* C8: once an interrupt arrived during input collection, the process has
\* exited with a non-zero status and the deriver has not run and never runs.
C8_InterruptExits ==
    interrupted =>
        /\ pc = "exited"
        /\ exit_status > 0
        /\ calls = 0
        /\ executed = {}

\* the interrupt arrived after a seed had been entered
C8_Witness ==
    /\ interrupted
    /\ Len(device_seeds) >= 1
    /\ pc = "exited"

\* C9: input that ends with no seed collected leads to the message and exit
\* status 1 with no call of the deriver; the deriver is never called with an
\* empty sequence nor more than once; with a seed collected and no interrupt
\* the run ends with exactly one call.
C9_NoEmptyDerivation ==
    /\ (pc = "exited" /\ ~interrupted /\ Len(device_seeds) = 0)
           => (out = "no_seeds" /\ exit_status = 1 /\ calls = 0 /\ executed = {})
    /\ calls > 0 => Len(passed) > 0
    /\ InFunction => Len(passed) > 0
    /\ calls <= 1
    /\ (pc = "exited" /\ ~interrupted /\ Len(device_seeds) > 0)
           => (calls = 1 /\ passed = device_seeds)

\* the user ended the input with an empty line before entering any seed
C9_Witness ==
    /\ pc = "exited"
    /\ ~interrupted
    /\ Len(device_seeds) = 0
    /\ Len(lines) = 1

\* C10 as stated: the sequence passed to the deriver is the lines entered
\* before the first empty line, unchanged and in order.
C10_LinesUnchanged ==
    calls = 1 => passed = BeforeFirstEmpty(lines)

\* C10 amended: collection stops at the first blank line (empty once its
\* leading and trailing whitespace is removed) or at end of input, and the
\* sequence passed to the deriver is the lines entered before it, in order,
\* each without its leading and trailing whitespace.
C10_LinesStripped ==
    /\ \A i \in 1..(Len(lines) - 1) : ~Blank(lines[i])
    /\ (Len(lines) > 0 /\ Blank(lines[Len(lines)]))
           => pc \notin {"input", "append"}
    /\ calls = 1 =>
           /\ Len(passed) = Len(BeforeFirstBlank(lines))
           /\ \A i \in 1..Len(passed) : IsStripOf(passed[i], lines[i])

\* the deriver was called with a seed that differs from the line as typed
C10_Witness ==
    /\ calls = 1
    /\ \E i \in 1..Len(passed) : passed[i] # lines[i]

====
